---- MODULE Spec2Model ----
(***************************************************************************)
(* EventEase: referential integrity between participations and events,    *)
(* and the derived userRegistrations aggregate.                            *)
(*                                                                         *)
(* The store is the json-server database served by the auto-sync server   *)
(* (its events, participations, users and userRegistrations collections). *)
(* The server's request handlers run to completion one at a time (one     *)
(* node.js thread, synchronous lowdb), so each is one action.  The        *)
(* Angular client's EventService operations are chains of HTTP requests;  *)
(* each request is one action, taken when the server handles it, and the  *)
(* requests a callback issues stay in flight until their own action.      *)
(*                                                                         *)
(* Ids are numbers or strings (Event.id: number | string).  An id is      *)
(* modelled as [t, v]: t is the JavaScript type, v the numeric value (of  *)
(* the number, or of the decimal string).  === is equality of both        *)
(* fields; toString() and URL interpolation keep only v.                  *)
(***************************************************************************)
EXTENDS Integers, Sequences, FiniteSets, TLC

\* ---------------------------------------------------------------- bounds
MaxParts == 2      \* participations held by the store at one time
MaxPartId == 3     \* participation ids ever handed out
MaxEventV == 1     \* event ids have numeric value 0..MaxEventV

\* ------------------------------------------------------------------- ids
Num(v) == [t |-> "num", v |-> v]
Str(v) == [t |-> "str", v |-> v]
Null == [t |-> "null", v |-> 0]

\* String(id), id.toString(), `${id}`: the decimal text, the type is lost.
ToStr(id) == id.v

\* !x for an id: null, undefined and the number 0 are falsy; "0" is not.
Falsy(id) == id.t = "null" \/ (id.t = "num" /\ id.v = 0)

\* The ids an event can carry in this model: the number 0, the number 1,
\* the string "1", and the strings "2", ... up to MaxEventV.
EventIdPool == {Num(0), Num(1), Str(1)} \cup {Str(v) : v \in 2..MaxEventV}

Statuses == {"Assigned", "Pending", "Registered"}
Attendances == {"Attended", "Completed"}
RegDate == "2024-01-01"

\* ------------------------------------------------------------- the store
VARIABLES
  users,              \* db.users: sequence of User
  events,             \* db.events: set of Event
  participations,     \* db.participations: sequence of EventParticipation
  userRegistrations,  \* db.userRegistrations: the derived aggregate
  nextId,             \* next participation id the router hands out
  cascade,            \* EventService.cleanupOrphanedParticipations in flight
  sweep,              \* EventService.cleanupAllOrphanedParticipations in flight
  pendingPatch,       \* a PATCH /participations/:id in flight, or NoPatch
  dashEvents,         \* UserDashboardComponent.events (the cached list)
  swept,              \* observation: a full sweep completed, no mutation since
  hist,               \* observation: what the step just taken did
  adminDashboard,     \* AdminDashboardComponent: its fields, its requests in flight
  adminEvents,        \* AdminEventsComponent: its fields
  auth                \* AuthService (currentUser, localStorage) and the router's url

vars == <<users, events, participations, userRegistrations, nextId,
          cascade, sweep, pendingPatch, dashEvents, swept, hist,
          adminDashboard, adminEvents, auth>>

\* The admin pages and the session: what the integrity engine never touches.
ui == <<adminDashboard, adminEvents, auth>>

store == <<users, events, participations, userRegistrations, nextId>>

Event(id) == [id |-> id, title |-> ToStr(id)]

User(id, role) == [id |-> id, name |-> id, email |-> id, role |-> role]

Participation(id, userId, eventId, status, attendance) ==
  [id |-> id, userId |-> userId, eventId |-> eventId, status |-> status,
   attendance |-> attendance, registrationDate |-> RegDate]

Range(s) == {s[i] : i \in DOMAIN s}

Ids(s) == {s[i].id : i \in DOMAIN s}

\* A sequence without the records whose id is in drop.
DropIds(parts, drop) == SelectSeq(parts, LAMBDA p : p.id \notin drop)

\* events.find(e => e.id === eventId) !== undefined
FindsEvent(evts, eventId) == \E e \in evts : e.id = eventId

FindEvent(evts, eventId) == CHOOSE e \in evts : e.id = eventId

\* -------------------------------------------------- syncUserRegistrations
\* The attendance field is "absent" when the code does not set it.
AttendanceShownAlways(p) == IF p.attendance # "null" THEN p.attendance ELSE "absent"

ParticipationAttendance(p) ==
  IF p.status = "Registered" /\ p.attendance # "null" THEN p.attendance ELSE "absent"

ParticipationData(p, event) ==
  [eventId |-> p.eventId, eventTitle |-> event.title, status |-> p.status,
   registrationDate |-> p.registrationDate,
   attendance |-> ParticipationAttendance(p)]

\* userParticipations[userId]: the participations of one user, in the order of
\* the collection, those with no event left out.
UserParticipationsOncePerEvent(parts, evts, userId) ==
  LET F[i \in 0..Len(parts)] ==
        IF i = 0 THEN <<>>
        ELSE IF /\ parts[i].userId = userId
                /\ FindsEvent(evts, parts[i].eventId)
                /\ \A k \in DOMAIN F[i-1] : F[i-1][k].eventId # parts[i].eventId
             THEN Append(F[i-1],
                    ParticipationData(parts[i], FindEvent(evts, parts[i].eventId)))
             ELSE F[i-1]
  IN F[Len(parts)]

UserParticipationsCountsUnresolved(parts, evts, userId) ==
  LET F[i \in 0..Len(parts)] ==
        IF i = 0 THEN <<>>
        ELSE IF parts[i].userId = userId
             THEN Append(F[i-1],
                    ParticipationData(parts[i],
                      IF FindsEvent(evts, parts[i].eventId)
                      THEN FindEvent(evts, parts[i].eventId)
                      ELSE [id |-> Null, title |-> 0]))
             ELSE F[i-1]
  IN F[Len(parts)]

UserParticipations(parts, evts, userId) ==
  LET F[i \in 0..Len(parts)] ==
        IF i = 0 THEN <<>>
        ELSE IF parts[i].userId = userId /\ FindsEvent(evts, parts[i].eventId)
             THEN Append(F[i-1],
                    ParticipationData(parts[i], FindEvent(evts, parts[i].eventId)))
             ELSE F[i-1]
  IN F[Len(parts)]

UserRegistration(user, parts, evts) ==
  [userId |-> user.id, userName |-> user.name, userEmail |-> user.email,
   registeredEvents |-> UserParticipations(parts, evts, user.id),
   totalRegistrations |-> Len(UserParticipations(parts, evts, user.id))]

SyncEveryUser(parts, usrs, evts) ==
  [i \in DOMAIN usrs |-> UserRegistration(usrs[i], parts, evts)]

SyncUserRegistrations(parts, usrs, evts) ==
  LET regular == SelectSeq(usrs, LAMBDA u : u.role = "user")
  IN [i \in DOMAIN regular |-> UserRegistration(regular[i], parts, evts)]

\* ------------------------------------------------------ the server (part_000)
\* DELETE /events/:id middleware: eventId = req.params.id is a string, and the
\* filter compares with ===.
EventDeleteOrphaned(parts, param) ==
  SelectSeq(parts, LAMBDA p : p.eventId = Str(param))

\* db.get('participations').remove({ id: participation.id }) for each of them.
RemoveEachDetaches(parts, orphaned) ==
  [i \in DOMAIN parts |->
     IF parts[i].id \in Ids(orphaned) THEN [parts[i] EXCEPT !.eventId = Null]
     ELSE parts[i]]

RemoveEach(parts, orphaned) == DropIds(parts, Ids(orphaned))

\* The router is json-server's (jsonServer.router('db.json')); the handlers of
\* the repository rely on its REST contract, which is what is modelled: a
\* request reads or writes the resource it addresses and nothing else, and
\* the :id of a URL selects the record whose id reads as that text.
\* DELETE /events/:id.
RouterDestroyEvent(evts, param) == {e \in evts : ToStr(e.id) # param}

\* The router's DELETE /participations/:id.
RouterDestroyParticipation(parts, id) == DropIds(parts, {id})

\* The router's PATCH /participations/:id: the body's fields replace the record's.
RouterPatch(p, data) ==
  [p EXCEPT !.status = IF data.status = "keep" THEN @ ELSE data.status,
            !.attendance = IF data.attendance = "keep" THEN @ ELSE data.attendance]

RouterPatchParticipation(parts, id, data) ==
  [i \in DOMAIN parts |-> IF parts[i].id = id THEN RouterPatch(parts[i], data) ELSE parts[i]]

\* The router's POST /participations: the record gets the next id.
RouterCreateParticipation(parts, id, body) ==
  Append(parts, Participation(id, body.userId, body.eventId, body.status, body.attendance))

\* cleanupOrphanedParticipations(db), run when the server starts listening.
ServerOrphanedFirstOnly(parts, evts) ==
  LET all == SelectSeq(parts, LAMBDA p :
                 Falsy(p.eventId) \/ ~FindsEvent(evts, p.eventId))
  IN IF all = <<>> THEN <<>> ELSE <<all[1]>>

ServerOrphanedParticipations(parts, evts) ==
  SelectSeq(parts, LAMBDA p :
    \/ Falsy(p.eventId)
    \/ p.eventId = Null
    \/ p.eventId = Null
    \/ ~FindsEvent(evts, p.eventId))

\* res.send as wrapped by the /participations middleware: the router has
\* written the store when it sends, and the rebuild reads the store then.
ResSendBeforeWrite(before, after, usrs, evts) == SyncUserRegistrations(before, usrs, evts)

ResSendAppends(before, after, usrs, evts) ==
  userRegistrations \o SyncUserRegistrations(after, usrs, evts)

ResSend(before, after, usrs, evts) == SyncUserRegistrations(after, usrs, evts)

\* What the wrapped res.send does besides the rebuild: try { sync; send }
\* catch (error) { console.error; send }.  sent counts the calls of the
\* original res.send, logged tells whether the error was logged.
ResSendCallsRethrows(throws) == [sent |-> IF throws THEN 0 ELSE 1, logged |-> throws]

ResSendCalls(throws) == [sent |-> 1, logged |-> throws]

\* The router's DELETE /users/:id.
RouterDestroyUser(usrs, id) == SelectSeq(usrs, LAMBDA u : u.id # id)

\* router.db as syncUserRegistrations sees it.
Db == [users |-> users, events |-> events, participations |-> participations,
       userRegistrations |-> userRegistrations]

\* syncUserRegistrations(db): the database it leaves.  It reads three
\* collections and ends with db.set('userRegistrations', ...).write().
SyncedKeepsStale(db) ==
  LET fresh == SyncUserRegistrations(db.participations, db.users, db.events)
      touched == {fresh[j].userId : j \in {i \in DOMAIN fresh : fresh[i].totalRegistrations > 0}}
  IN [db EXCEPT !.userRegistrations =
        SelectSeq(db.userRegistrations, LAMBDA r : r.userId \notin touched)
          \o SelectSeq(fresh, LAMBDA r : r.userId \in touched)]

SyncedPrunes(db) ==
  [db EXCEPT !.userRegistrations =
               SyncUserRegistrations(db.participations, db.users, db.events),
             !.participations =
               SelectSeq(db.participations, LAMBDA p : FindsEvent(db.events, p.eventId))]

Synced(db) ==
  [db EXCEPT !.userRegistrations =
               SyncUserRegistrations(db.participations, db.users, db.events)]

\* ------------------------------------------------------------ observations
NoPatch == [id |-> 0, status |-> "keep", attendance |-> "keep"]
NoPart == Participation(0, 0, Null, "none", "null")

Quiet == [last |-> "none", victims |-> {}, removed |-> 0, second |-> FALSE,
          patch |-> NoPatch, prev |-> NoPart, param |-> 0,
          sent |-> 0, logged |-> FALSE, path |-> "none"]

\* before: the next id when the event was deleted (older records were there).
IdleCascade == [pc |-> "idle", eventId |-> Null, before |-> 0, todo |-> {},
                failed |-> FALSE]

IdleSweep == [pc |-> "idle", gotParts |-> FALSE, parts |-> <<>>,
              gotEvents |-> FALSE, evts |-> {}, todo |-> {}, failed |-> FALSE,
              removed |-> 0, second |-> FALSE, disturbed |-> FALSE,
              retry |-> FALSE, start |-> {}]

\* second: the run follows a completed sweep with no write in between;
\* retry: the run follows a run some removal of which failed;
\* start: the ids of the participations that were orphaned when the run
\* started, kept while it runs.
\* A step of anything but the sweep itself that writes the store.
Disturbed(s) == IF s.pc = "idle" THEN s ELSE [s EXCEPT !.disturbed = TRUE]

\* No request, cascade or sweep is in flight.
Quiescent ==
  /\ cascade.pc \in {"idle", "done", "aborted"}
  /\ sweep.pc \in {"idle", "done", "aborted"}
  /\ pendingPatch = NoPatch

NoOrphans ==
  \A i \in DOMAIN participations : FindsEvent(events, participations[i].eventId)

\* ------------------------------------------- the client (EventService, part_005)
\* cleanupOrphanedParticipations(eventId): participations.filter(p => p.eventId === eventId)
OrphanedOfEvent(parts, eventId) == SelectSeq(parts, LAMBDA p : p.eventId = eventId)

\* cleanupAllOrphanedParticipations: the filter over the two loaded lists.
OrphanedFirstOnly(parts, evts) ==
  LET all == SelectSeq(parts, LAMBDA p :
                 Falsy(p.eventId) \/ ~FindsEvent(evts, p.eventId))
  IN IF all = <<>> THEN <<>> ELSE <<all[1]>>

OrphanedParticipations(parts, evts) ==
  SelectSeq(parts, LAMBDA p :
    \/ Falsy(p.eventId)
    \/ p.eventId = Null
    \/ p.eventId = Null
    \/ ~FindsEvent(evts, p.eventId))

\* GET /participations?userId=..&eventId=..: the router compares the texts.
QueryParticipations(parts, userId, eventId) ==
  SelectSeq(parts, LAMBDA p :
    /\ p.userId = userId
    /\ p.eventId # Null
    /\ ToStr(p.eventId) = ToStr(eventId))

\* updateParticipationStatus: shouldClearAttendance ? {status, attendance: null} : {status}
StatusUpdateNeverClears(status) == [id |-> 0, status |-> status, attendance |-> "keep"]

StatusUpdateData(status) ==
  [id |-> 0, status |-> status,
   attendance |-> IF status = "Assigned" \/ status = "Pending" THEN "null" ELSE "keep"]

\* updateParticipationAttendance: { attendance }
AttendanceUpdateData(attendance) ==
  [id |-> 0, status |-> "keep", attendance |-> attendance]

\* ------------------------------- the admin dashboard (AdminDashboardComponent)
\* Texts.  A title is the decimal text of the event's id (one character), so
\* title.includes(term) for a one-character term is equality; NoTerm is the
\* empty search box ('' or null), NoTitle a null eventTitleFilter.
NoTerm == -1
NoTitle == -1

\* selectedFilter: 'all', a status, or an event title.
AllFilter == [k |-> "all", s |-> "all", n |-> 0]
StatusFilter(status) == [k |-> "status", s |-> status, n |-> 0]
TitleFilter(title) == [k |-> "title", s |-> "title", n |-> title]

\* The statuses filterParticipations accepts.
FilterStatuses == {"Assigned", "Pending", "Registered", "Attended", "Completed"}

DefaultPageSize == 5

\* No load is in flight; nothing was fetched.
NoRound == [events |-> "none", parts |-> "none", fetchedEvents |-> {},
            fetchedParts |-> <<>>, partsFirst |-> FALSE]

\* The component as constructed (its field initialisers).  round: the
\* loadEvents / loadParticipations pair in flight and what it fetched;
\* deleting: the deleteParticipation requests of cleanUpOrphanParticipations
\* in flight; hidden: the ids the last listing left out.
NewAdminDashboard ==
  [events |-> {}, participations |-> <<>>, filteredParticipations |-> <<>>,
   selectedFilter |-> AllFilter, searchTerm |-> NoTerm,
   currentPage |-> 1, pageSize |-> DefaultPageSize, totalItems |-> 0,
   totalPages |-> 0, paginatedParticipations |-> <<>>,
   eventTitleFilter |-> NoTitle, statusFilter |-> "null", searchFilter |-> NoTerm,
   round |-> NoRound, deleting |-> {}, hidden |-> {}]

\* Math.ceil(a / b) for a >= 0, b > 0.
Ceil(a, b) == (a + b - 1) \div b

\* list.slice(start, end): a negative index counts from the end of the list,
\* both are brought into 0..list.length.
Slice(list, start, end) ==
  LET n == Len(list)
      At(i) == IF i < 0 THEN (IF n + i < 0 THEN 0 ELSE n + i)
               ELSE IF i > n THEN n ELSE i
  IN IF At(start) >= At(end) THEN <<>> ELSE SubSeq(list, At(start) + 1, At(end))

\* this.totalPages || 1
ClampedPageUnfloored(currentPage, totalPages) ==
  IF currentPage > totalPages THEN totalPages ELSE currentPage

ClampedPage(currentPage, totalPages) ==
  IF currentPage > totalPages
  THEN (IF totalPages = 0 THEN 1 ELSE totalPages)
  ELSE currentPage

\* calculatePagination()
CalculatePagination(c) ==
  LET totalItems == Len(c.filteredParticipations)
      totalPages == Ceil(totalItems, c.pageSize)
      currentPage == ClampedPage(c.currentPage, totalPages)
      startIndex == (currentPage - 1) * c.pageSize
      endIndex == startIndex + c.pageSize
  IN [c EXCEPT !.totalItems = totalItems, !.totalPages = totalPages,
               !.currentPage = currentPage,
               !.paginatedParticipations =
                  Slice(c.filteredParticipations, startIndex, endIndex)]

\* getEvent(eventId): this.events.find(event => event.id === eventId)
GetEvent(c, eventId) == FindsEvent(c.events, eventId)

\* getEvent(p.eventId) with title equal to / including the given text.
TitleIs(c, p, title) ==
  GetEvent(c, p.eventId) /\ FindEvent(c.events, p.eventId).title = title

ByStatus(parts, status) == SelectSeq(parts, LAMBDA p : p.status = status)

ByTitle(c, parts, title) == SelectSeq(parts, LAMBDA p : TitleIs(c, p, title))

\* loadParticipations, the next callback: the list without the participations
\* of no cached event, the filter in force applied again, the pages.
Listed(c, fetched) == SelectSeq(fetched, LAMBDA p : GetEvent(c, p.eventId))

LoadedParticipations(c, fetched) ==
  LET d == [c EXCEPT !.participations = Listed(c, fetched)]
  IN CalculatePagination(
       IF d.searchFilter # NoTerm
       THEN [d EXCEPT !.filteredParticipations =
                         ByTitle(d, d.participations, d.searchFilter)]
       ELSE IF d.statusFilter # "null" /\ d.statusFilter # "all"
       THEN [d EXCEPT !.filteredParticipations = ByStatus(d.participations, d.statusFilter),
                      !.selectedFilter = StatusFilter(d.statusFilter)]
       ELSE IF d.eventTitleFilter # NoTitle
       THEN [d EXCEPT !.filteredParticipations =
                         ByTitle(d, d.participations, d.eventTitleFilter),
                      !.selectedFilter = TitleFilter(d.eventTitleFilter)]
       ELSE [d EXCEPT !.filteredParticipations = d.participations])

\* loadParticipations, the error callback.
FailedParticipations(c) ==
  CalculatePagination([c EXCEPT !.participations = <<>>,
                                !.filteredParticipations = <<>>])

\* filterParticipationsByStatus(status): a click on the donut chart.
FilteredByStatus(c, status) ==
  LET d == IF c.selectedFilter = StatusFilter(status)
           THEN [c EXCEPT !.selectedFilter = AllFilter,
                          !.filteredParticipations = c.participations,
                          !.statusFilter = "null"]
           ELSE [c EXCEPT !.selectedFilter = StatusFilter(status),
                          !.filteredParticipations = ByStatus(c.participations, status),
                          !.statusFilter = status,
                          !.eventTitleFilter = NoTitle]
  IN CalculatePagination([d EXCEPT !.searchTerm = NoTerm, !.currentPage = 1])

\* filterParticipationsByEventTitle(label, eventData): a click on a bar of the
\* chart, whose eventData holds the cached events.
FilteredByEventTitle(c, title) ==
  [c EXCEPT !.filteredParticipations = ByTitle(c, c.participations, title),
            !.selectedFilter = TitleFilter(title),
            !.eventTitleFilter = title]

\* filterParticipations(filter)
Filtered(c, filter) ==
  LET d == [c EXCEPT !.selectedFilter = filter, !.searchTerm = NoTerm]
      e == IF filter = AllFilter
           THEN [d EXCEPT !.filteredParticipations = d.participations,
                          !.eventTitleFilter = NoTitle,
                          !.statusFilter = "null",
                          !.searchFilter = NoTerm]
           ELSE IF filter.k = "status" /\ filter.s \in FilterStatuses
           THEN [d EXCEPT !.filteredParticipations = ByStatus(d.participations, filter.s),
                          !.statusFilter = filter.s,
                          !.eventTitleFilter = NoTitle,
                          !.searchFilter = NoTerm]
           ELSE d
  IN CalculatePagination([e EXCEPT !.currentPage = 1])

\* searchParticipations() with the search box holding term.
Searched(c, term) ==
  IF term = NoTerm
  THEN [Filtered([c EXCEPT !.searchTerm = term], c.selectedFilter)
          EXCEPT !.searchFilter = NoTerm]
  ELSE LET filtered == IF c.selectedFilter = AllFilter
                       THEN c.participations
                       ELSE ByStatus(c.participations, c.selectedFilter.s)
       IN CalculatePagination(
            [c EXCEPT !.searchTerm = term, !.searchFilter = term,
                      !.filteredParticipations = ByTitle(c, filtered, term),
                      !.currentPage = 1])

\* goToPage(page), nextPage(), previousPage(), changePageSize(size)
WentToPage(c, page) ==
  IF page >= 1 /\ page <= c.totalPages
  THEN CalculatePagination([c EXCEPT !.currentPage = page])
  ELSE c

WentToNextPage(c) ==
  IF c.currentPage < c.totalPages
  THEN CalculatePagination([c EXCEPT !.currentPage = c.currentPage + 1])
  ELSE c

WentToPreviousPage(c) ==
  IF c.currentPage > 1
  THEN CalculatePagination([c EXCEPT !.currentPage = c.currentPage - 1])
  ELSE c

ChangedPageSize(c, size) ==
  CalculatePagination([c EXCEPT !.pageSize = size, !.currentPage = 1])

\* cleanUpOrphanParticipations(): the listed participations of no cached event.
OrphanParticipations(c) ==
  Ids(SelectSeq(c.participations, LAMBDA p : ~GetEvent(c, p.eventId)))

\* ------------------------------------ the events list (AdminEventsComponent)
EventsPageSize == 10

\* GET /events answers with the collection in its order: by id here.
RECURSIVE InOrder(_)
InOrder(evts) ==
  IF evts = {} THEN <<>>
  ELSE LET first == CHOOSE e \in evts :
                      \A f \in evts : 2 * e.id.v + (IF e.id.t = "str" THEN 1 ELSE 0)
                                        <= 2 * f.id.v + (IF f.id.t = "str" THEN 1 ELSE 0)
       IN <<first>> \o InOrder(evts \ {first})

NewAdminEvents ==
  [events |-> <<>>, filteredEvents |-> <<>>, searchTerm |-> NoTerm,
   currentPage |-> 1, pageSize |-> EventsPageSize, totalItems |-> 0,
   totalPages |-> 0, paginatedEvents |-> <<>>]

\* AdminEventsComponent.calculatePagination()
EventsCalculatePagination(c) ==
  LET totalItems == Len(c.filteredEvents)
      totalPages == Ceil(totalItems, c.pageSize)
      currentPage == IF c.currentPage > totalPages
                     THEN (IF totalPages = 0 THEN 1 ELSE totalPages)
                     ELSE c.currentPage
      startIndex == (currentPage - 1) * c.pageSize
      endIndex == startIndex + c.pageSize
  IN [c EXCEPT !.totalItems = totalItems, !.totalPages = totalPages,
               !.currentPage = currentPage,
               !.paginatedEvents = Slice(c.filteredEvents, startIndex, endIndex)]

\* loadEvents, the next callback.
EventsLoaded(c, fetched) ==
  EventsCalculatePagination([c EXCEPT !.events = fetched, !.filteredEvents = fetched])

\* filterEvents() with the search box holding term.
EventsFiltered(c, term) ==
  EventsCalculatePagination(
    [c EXCEPT !.searchTerm = term,
              !.filteredEvents = IF term = NoTerm THEN c.events
                                 ELSE SelectSeq(c.events, LAMBDA e : e.title = term),
              !.currentPage = 1])

EventsWentToPage(c, page) ==
  IF page >= 1 /\ page <= c.totalPages
  THEN EventsCalculatePagination([c EXCEPT !.currentPage = page])
  ELSE c

EventsWentToNextPage(c) ==
  IF c.currentPage < c.totalPages
  THEN EventsCalculatePagination([c EXCEPT !.currentPage = c.currentPage + 1])
  ELSE c

EventsWentToPreviousPage(c) ==
  IF c.currentPage > 1
  THEN EventsCalculatePagination([c EXCEPT !.currentPage = c.currentPage - 1])
  ELSE c

EventsChangedPageSize(c, size) ==
  EventsCalculatePagination([c EXCEPT !.pageSize = size, !.currentPage = 1])

\* ------------------------------------------ the session (AuthService, guards)
NoUser == [id |-> 0, name |-> 0, email |-> 0, role |-> "none"]

\* A user's password is modelled by the user's id.
Password(u) == u.id

\* currentUser: currentUserSubject.value; stored: localStorage['currentUser'];
\* url: where the router is; failed: the last login attempt was refused.
NewAuth(stored) ==
  [currentUser |-> stored, stored |-> stored, url |-> "/login", failed |-> FALSE]

\* login(credentials), the map over the fetched users.
FindUser(usrs, credentials) ==
  SelectSeq(usrs, LAMBDA u :
    u.email = credentials.email /\ Password(u) = credentials.password)

LoggedInForgetsOnFailure(a, usrs, credentials) ==
  IF FindUser(usrs, credentials) # <<>>
  THEN [a EXCEPT !.currentUser = FindUser(usrs, credentials)[1],
                 !.stored = FindUser(usrs, credentials)[1],
                 !.failed = FALSE]
  ELSE [a EXCEPT !.currentUser = NoUser, !.stored = NoUser, !.failed = TRUE]

LoggedIn(a, usrs, credentials) ==
  IF FindUser(usrs, credentials) # <<>>
  THEN [a EXCEPT !.currentUser = FindUser(usrs, credentials)[1],
                 !.stored = FindUser(usrs, credentials)[1],
                 !.failed = FALSE]
  ELSE [a EXCEPT !.failed = TRUE]

\* logout()
LoggedOut(a) == [a EXCEPT !.currentUser = NoUser, !.stored = NoUser, !.failed = FALSE]

\* isLoggedIn(), isAdmin()
IsLoggedIn(a) == a.currentUser # NoUser

IsAdmin(a) == a.currentUser # NoUser /\ a.currentUser.role = "admin"

\* AuthGuard.canActivate(), AdminGuard.canActivate(): "yes", or the url of the
\* UrlTree returned.
AuthGuard(a) == IF IsLoggedIn(a) THEN "yes" ELSE "/login"

AdminGuard(a) == IF IsAdmin(a) THEN "yes" ELSE "/user/dashboard"

\* The routes: the guards of a path, in the order of canActivate.
Paths == {"/login", "/user/dashboard", "/admin/dashboard", "/admin/events"}

Guards(path) ==
  IF path = "/user/dashboard" THEN <<"AuthGuard">>
  ELSE IF path \in {"/admin/dashboard", "/admin/events"} THEN <<"AuthGuard", "AdminGuard">>
  ELSE <<>>

Guard(name, a) == IF name = "AuthGuard" THEN AuthGuard(a) ELSE AdminGuard(a)

\* Where a navigation to path ends: at path when every guard says yes, else at
\* the redirect of the first guard that does not, followed in its turn.
RECURSIVE Navigated(_, _, _)
Navigated(a, path, fuel) ==
  LET refusals == SelectSeq(Guards(path), LAMBDA g : Guard(g, a) # "yes")
  IN IF refusals = <<>> \/ fuel = 0 THEN path
     ELSE Navigated(a, Guard(refusals[1], a), fuel - 1)

\* ------------------------------------------------------------ initial state
MaxSeed == 2       \* participations in the seed database

UserIds == {5, 9}
SeedStates == {<<"Registered", "null">>, <<"Registered", "Attended">>,
               <<"Pending", "Attended">>}
SeedUsers == <<User(5, "user"), User(7, "user"), User(9, "admin")>>

\* No two events of a collection have ids that read the same.
EventIdSets ==
  {S \in SUBSET EventIdPool : \A a, b \in S : ToStr(a) = ToStr(b) => a = b}

\* The seed database (db.json): users, some events, up to MaxSeed
\* participations with ids 1, 2, ...; userRegistrations as last synced.
SeededFor(session, userIds, eventIds, states, maxN) ==
  /\ users = SeedUsers
  /\ \E S \in EventIdSets : events = {Event(id) : id \in S}
  /\ \E n \in 0..maxN :
       \E f \in [1..n -> userIds \X eventIds \X states] :
         participations =
           [i \in 1..n |-> Participation(i, f[i][1], f[i][2], f[i][3][1], f[i][3][2])]
  /\ nextId = Len(participations) + 1
  /\ userRegistrations = SyncUserRegistrations(participations, users, events)
  /\ cascade = IdleCascade
  /\ sweep = IdleSweep
  /\ pendingPatch = NoPatch
  /\ dashEvents = {}
  /\ swept = FALSE
  /\ hist = Quiet
  /\ adminDashboard = NewAdminDashboard
  /\ adminEvents = NewAdminEvents
  /\ auth = session

\* The same with nobody logged in, the browser at /login.
Seeded(userIds, eventIds, states, maxN) ==
  SeededFor(NewAuth(NoUser), userIds, eventIds, states, maxN)

\* The session of the seed database's admin, the browser at one of the admin's
\* pages.
AdminAt(path) == [NewAuth(SeedUsers[3]) EXCEPT !.url = path]

Init == Seeded({5}, EventIdPool \cup {Null}, {<<"Registered", "null">>}, MaxSeed)

\* ------------------------------------------------------------------ actions
StoreChanged == <<events', participations'>> # <<events, participations>>

\* What a step outside the sweep leaves for the observations.
Outside(h) ==
  /\ hist' = h
  /\ swept' = (swept /\ ~StoreChanged)
  /\ sweep' = IF StoreChanged THEN Disturbed(sweep) ELSE sweep

\* The participations with eventId === the id of the event the parameter names.
Victims(param) ==
  {participations[i].id : i \in
     {j \in DOMAIN participations :
        \E e \in events : ToStr(e.id) = param /\ participations[j].eventId = e.id}}

\* server.use('/events/:id') on DELETE, then the router.
DeleteEventsHandler(param) ==
  /\ participations' =
       RemoveEach(participations, EventDeleteOrphaned(participations, param))
  /\ events' = RouterDestroyEvent(events, param)
  /\ UNCHANGED <<users, userRegistrations, nextId>>

\* server.use('/participations') on DELETE /participations/:id, then the router.
DeleteParticipationHandler(id) ==
  /\ participations' = RouterDestroyParticipation(participations, id)
  /\ userRegistrations' = ResSend(participations, participations', users, events)
  /\ UNCHANGED <<users, events, nextId>>

\* server.use('/participations') on PATCH /participations/:id, then the router
\* (404 when the record is gone).
PatchParticipationHandler(id, data) ==
  /\ participations' = RouterPatchParticipation(participations, id, data)
  /\ userRegistrations' = ResSend(participations, participations', users, events)
  /\ UNCHANGED <<users, events, nextId>>

\* server.use('/participations') on POST /participations, then the router.
PostParticipationHandler(body) ==
  /\ Len(participations) < MaxParts /\ nextId <= MaxPartId
  /\ participations' = RouterCreateParticipation(participations, nextId, body)
  /\ nextId' = nextId + 1
  /\ userRegistrations' = ResSend(participations, participations', users, events)
  /\ UNCHANGED <<users, events>>

\* The server is between the two parts of a DELETE /events/:id.
MidRequest == hist.last = "eventsMiddleware"

\* DELETE /events/:id in its two parts.  First the middleware: it removes the
\* participations and writes the database, then calls next().
EventsMiddleware(param) ==
  /\ ~MidRequest
  /\ participations' =
       RemoveEach(participations, EventDeleteOrphaned(participations, param))
  /\ UNCHANGED <<users, events, userRegistrations, nextId, cascade, pendingPatch,
                 dashEvents>>
  /\ Outside([Quiet EXCEPT !.last = "eventsMiddleware", !.param = param,
                           !.victims = Ids(EventDeleteOrphaned(participations, param))])
  /\ UNCHANGED ui

\* Then the router, reached through next(): it removes the event (404 when
\* there is none).
EventsRouter ==
  /\ hist.last = "eventsMiddleware"
  /\ events' = RouterDestroyEvent(events, hist.param)
  /\ UNCHANGED <<users, participations, userRegistrations, nextId, cascade,
                 pendingPatch, dashEvents>>
  /\ Outside([Quiet EXCEPT !.last = "eventsRouter"])
  /\ UNCHANGED ui

\* DELETE /events/:id sent by any HTTP client.
HttpDeleteEvent(param) ==
  /\ DeleteEventsHandler(param)
  /\ Outside([Quiet EXCEPT !.last = "deleteEvent", !.victims = Victims(param)])
  /\ UNCHANGED <<cascade, pendingPatch, dashEvents>>
  /\ UNCHANGED ui

\* server.listen: cleanupOrphanedParticipations(db).
ServerListen ==
  /\ participations' =
       RemoveEach(participations, ServerOrphanedParticipations(participations, events))
  /\ UNCHANGED <<users, events, userRegistrations, nextId, cascade, pendingPatch,
                 dashEvents>>
  /\ hist' = [Quiet EXCEPT !.last = "listen", !.second = swept,
                           !.removed = Len(participations) - Len(participations'),
                           !.victims = Ids(ServerOrphanedParticipations(participations, events))]
  /\ swept' = TRUE
  /\ sweep' = IF StoreChanged THEN Disturbed(sweep) ELSE sweep
  /\ UNCHANGED ui

\* server.listen: cleanupOrphanedParticipations(db) when the k-th
\* remove(...).write() of its forEach throws.  Nothing catches it: the records
\* before the k-th are removed, the k-th and those after it are not.
ServerListenThrows(k) ==
  LET orphaned == ServerOrphanedParticipations(participations, events)
  IN /\ k \in 1..Len(orphaned)
     /\ participations' = RemoveEach(participations, SubSeq(orphaned, 1, k - 1))
     /\ UNCHANGED <<users, events, userRegistrations, nextId, cascade, pendingPatch,
                    dashEvents>>
     /\ hist' = [Quiet EXCEPT !.last = "listenThrew",
                              !.victims = Ids(SubSeq(orphaned, 1, k))]
     /\ swept' = FALSE
     /\ sweep' = IF StoreChanged THEN Disturbed(sweep) ELSE sweep
     /\ UNCHANGED ui

\* EventService.createEvent: POST /events.
CreateEvent(id) ==
  /\ id # Num(0)
  /\ \A e \in events : ToStr(e.id) # ToStr(id)
  /\ events' = events \cup {Event(id)}
  /\ UNCHANGED <<users, participations, userRegistrations, nextId, cascade,
                 pendingPatch, dashEvents>>
  /\ Outside(Quiet)
  /\ UNCHANGED ui

\* EventService.deleteEvent(id): the DELETE succeeds, the tap starts the cascade.
DeleteEvent(e) ==
  /\ cascade.pc \in {"idle", "done", "aborted"}
  /\ DeleteEventsHandler(ToStr(e.id))
  /\ cascade' = [IdleCascade EXCEPT !.pc = "loading", !.eventId = e.id,
                                    !.before = nextId]
  /\ Outside(Quiet)
  /\ UNCHANGED <<pendingPatch, dashEvents>>
  /\ UNCHANGED ui

\* cleanupOrphanedParticipations(eventId): getParticipations answers.
CascadeLoad ==
  /\ cascade.pc = "loading"
  /\ LET todo == Ids(OrphanedOfEvent(participations, cascade.eventId))
     IN cascade' = [cascade EXCEPT !.todo = todo,
                                   !.pc = IF todo = {} THEN "done" ELSE "deleting"]
  /\ hist' = Quiet
  /\ UNCHANGED <<store, sweep, pendingPatch, dashEvents, swept>>
  /\ UNCHANGED ui

\* The error callbacks of the two cleanups: console.error, nothing else.
LoadError(task) == [task EXCEPT !.pc = "aborted"]

\* getParticipations fails: handleError logs and rethrows.
LoadFailed == [Quiet EXCEPT !.last = "loadFailed", !.logged = TRUE]

CascadeLoadFails ==
  /\ cascade.pc = "loading"
  /\ cascade' = LoadError(cascade)
  /\ hist' = LoadFailed
  /\ UNCHANGED <<store, sweep, pendingPatch, dashEvents, swept>>
  /\ UNCHANGED ui

\* One deleteParticipation of a cleanup: handled by the server (404 when the
\* record is gone), or lost on the way.
RemovalStopsAtFailure(task, id, failure) ==
  IF failure
  THEN [task EXCEPT !.todo = {}, !.failed = TRUE, !.pc = "aborted"]
  ELSE [task EXCEPT !.todo = task.todo \ {id},
                    !.pc = IF task.todo \ {id} = {} THEN "done" ELSE "deleting"]

Removal(task, id, failure) ==
  LET todo == task.todo \ {id}
  IN [task EXCEPT !.todo = todo,
                  !.failed = task.failed \/ failure,
                  !.pc = IF todo = {} THEN "done" ELSE "deleting"]

CascadeDelete(id) ==
  /\ cascade.pc = "deleting" /\ id \in cascade.todo
  /\ DeleteParticipationHandler(id)
  /\ cascade' = Removal(cascade, id, id \notin Ids(participations))
  /\ Outside([Quiet EXCEPT !.last = "participations",
                           !.removed = IF id \in Ids(participations) THEN 1 ELSE 0])
  /\ UNCHANGED <<pendingPatch, dashEvents>>
  /\ UNCHANGED ui

CascadeDeleteFails(id) ==
  /\ cascade.pc = "deleting" /\ id \in cascade.todo
  /\ cascade' = Removal(cascade, id, TRUE)
  /\ hist' = Quiet
  /\ UNCHANGED <<store, sweep, pendingPatch, dashEvents, swept>>
  /\ UNCHANGED ui

\* The participations with no eventId or with the eventId of no event.
OrphanIds(parts, evts) ==
  {parts[i].id : i \in {j \in DOMAIN parts :
                          parts[j].eventId = Null \/ ~FindsEvent(evts, parts[j].eventId)}}

\* A run that is over forgets what it started from.
Ended(s) == IF s.pc \in {"done", "aborted"} THEN [s EXCEPT !.start = {}] ELSE s

\* AppComponent.ngOnInit: cleanupAllOrphanedParticipations() starts its forkJoin.
StartSweep ==
  /\ sweep.pc \in {"idle", "done", "aborted"}
  /\ sweep' = [IdleSweep EXCEPT !.pc = "loading", !.second = swept,
                                !.retry = sweep.failed,
                                !.start = OrphanIds(participations, events)]
  /\ hist' = Quiet
  /\ UNCHANGED <<store, cascade, pendingPatch, dashEvents, swept>>
  /\ UNCHANGED ui

\* The forkJoin's next callback, run when both lists are there.
Joined(s) ==
  IF s.gotParts /\ s.gotEvents
  THEN LET todo == Ids(OrphanedParticipations(s.parts, s.evts))
       IN [s EXCEPT !.todo = todo, !.pc = IF todo = {} THEN "done" ELSE "deleting",
                    !.parts = <<>>, !.evts = {}]
  ELSE s

\* The sweep has ended with every removal done and nothing else written.
CleanEnd(s) == s.pc = "done" /\ ~s.failed /\ ~s.disturbed

SweepLoadParticipations ==
  /\ sweep.pc = "loading" /\ ~sweep.gotParts
  /\ sweep' = Ended(Joined([sweep EXCEPT !.gotParts = TRUE, !.parts = participations]))
  /\ swept' = (swept \/ CleanEnd(sweep'))
  /\ hist' = Quiet
  /\ UNCHANGED <<store, cascade, pendingPatch, dashEvents>>
  /\ UNCHANGED ui

SweepLoadEvents ==
  /\ sweep.pc = "loading" /\ ~sweep.gotEvents
  /\ sweep' = Ended(Joined([sweep EXCEPT !.gotEvents = TRUE, !.evts = events]))
  /\ swept' = (swept \/ CleanEnd(sweep'))
  /\ hist' = Quiet
  /\ UNCHANGED <<store, cascade, pendingPatch, dashEvents>>
  /\ UNCHANGED ui

\* getParticipations or getEvents fails: handleError rethrows, forkJoin errors.
\* forkJoin's error when the events did not come: the callback that would
\* filter the participations is not run.
ForkJoinErrorAsNoEvents(s) ==
  [s EXCEPT !.pc = IF s.gotParts /\ s.parts # <<>> THEN "deleting" ELSE "aborted",
            !.todo = IF s.gotParts THEN Ids(OrphanedParticipations(s.parts, {})) ELSE {},
            !.failed = TRUE]

ForkJoinError(s) == LoadError(s)

SweepLoadFails ==
  /\ sweep.pc = "loading"
  /\ sweep' = Ended(ForkJoinError(sweep))
  /\ hist' = LoadFailed
  /\ UNCHANGED <<store, cascade, pendingPatch, dashEvents, swept>>
  /\ UNCHANGED ui

SweepDelete(id) ==
  /\ sweep.pc = "deleting" /\ id \in sweep.todo
  /\ DeleteParticipationHandler(id)
  /\ sweep' = Ended([Removal(sweep, id, id \notin Ids(participations))
                 EXCEPT !.removed = @ + (IF id \in Ids(participations) THEN 1 ELSE 0)])
  /\ swept' = CleanEnd(sweep')
  /\ hist' = [Quiet EXCEPT !.last = "participations",
                           !.removed = IF id \in Ids(participations) THEN 1 ELSE 0]
  /\ UNCHANGED <<cascade, pendingPatch, dashEvents>>
  /\ UNCHANGED ui

SweepDeleteFails(id) ==
  /\ sweep.pc = "deleting" /\ id \in sweep.todo
  /\ sweep' = Ended(Removal(sweep, id, TRUE))
  /\ hist' = Quiet
  /\ UNCHANGED <<store, cascade, pendingPatch, dashEvents, swept>>
  /\ UNCHANGED ui

\* UserDashboardComponent.loadEvents: getEvents answers.
DashLoadEvents ==
  /\ dashEvents' = events
  /\ hist' = Quiet
  /\ UNCHANGED <<store, cascade, sweep, pendingPatch, swept>>
  /\ UNCHANGED ui

\* UserDashboardComponent.registerForEvent(eventId) for the session's user, then
\* EventService.createParticipation: POST /participations.
RegisterForEvent(user, eventId) ==
  /\ ~Falsy(eventId)
  /\ \E e \in dashEvents : ToStr(e.id) = ToStr(eventId)
  /\ PostParticipationHandler(
       [userId |-> user.id, eventId |-> eventId, status |-> "Registered",
        attendance |-> "null"])
  /\ UNCHANGED <<cascade, pendingPatch, dashEvents>>
  /\ Outside([Quiet EXCEPT !.last = "participations"])
  /\ UNCHANGED ui

\* EventService.updateParticipationStatus: the GET answers, the PATCH is sent.
UpdateParticipationStatus(userId, eventId, status) ==
  /\ pendingPatch = NoPatch
  /\ QueryParticipations(participations, userId, eventId) # <<>>
  /\ pendingPatch' =
       [StatusUpdateData(status) EXCEPT
          !.id = QueryParticipations(participations, userId, eventId)[1].id]
  /\ hist' = Quiet
  /\ UNCHANGED <<store, cascade, sweep, dashEvents, swept>>
  /\ UNCHANGED ui

\* EventService.updateParticipationAttendance: the GET answers, the PATCH is sent.
UpdateParticipationAttendance(userId, eventId, attendance) ==
  /\ pendingPatch = NoPatch
  /\ QueryParticipations(participations, userId, eventId) # <<>>
  /\ pendingPatch' =
       [AttendanceUpdateData(attendance) EXCEPT
          !.id = QueryParticipations(participations, userId, eventId)[1].id]
  /\ hist' = Quiet
  /\ UNCHANGED <<store, cascade, sweep, dashEvents, swept>>
  /\ UNCHANGED ui

\* The PATCH sent by updateParticipationStatus / updateParticipationAttendance
\* reaches the server.
PatchParticipation ==
  /\ pendingPatch # NoPatch
  /\ PatchParticipationHandler(pendingPatch.id, pendingPatch)
  /\ pendingPatch' = NoPatch
  /\ UNCHANGED <<cascade, dashEvents>>
  /\ Outside([Quiet EXCEPT
       !.last = "participations",
       !.patch = pendingPatch,
       !.prev = IF pendingPatch.id \in Ids(participations)
                THEN CHOOSE p \in Range(participations) : p.id = pendingPatch.id
                ELSE NoPart])
  /\ UNCHANGED ui

\* POST, PATCH and DELETE on /participations sent by any HTTP client.
HttpPostParticipation(body) ==
  /\ PostParticipationHandler(body)
  /\ UNCHANGED <<cascade, pendingPatch, dashEvents>>
  /\ Outside([Quiet EXCEPT !.last = "participations"])
  /\ UNCHANGED ui

\* second: the rebuild follows a rebuild, and the request wrote nothing (the
\* id is gone, or the body repeats the record).
Answered ==
  [Quiet EXCEPT !.last = "participations",
                !.second = (hist.last = "participations" /\ ~StoreChanged)]

HttpPatchParticipation(id, data) ==
  /\ PatchParticipationHandler(id, data)
  /\ UNCHANGED <<cascade, pendingPatch, dashEvents>>
  /\ Outside(Answered)
  /\ UNCHANGED ui

HttpDeleteParticipation(id) ==
  /\ DeleteParticipationHandler(id)
  /\ UNCHANGED <<cascade, pendingPatch, dashEvents>>
  /\ Outside(Answered)
  /\ UNCHANGED ui

\* The same requests when syncUserRegistrations throws in the wrapped res.send:
\* the router has written; the rebuild failed before or in its own write, so
\* the stored aggregate is the old one or the new one.
SyncThrew(kind) ==
  [Quiet EXCEPT !.last = kind, !.sent = ResSendCalls(TRUE).sent,
                !.logged = ResSendCalls(TRUE).logged]

ThrownRebuild ==
  userRegistrations' \in
    {userRegistrations, SyncUserRegistrations(participations', users, events)}

HttpPostSyncThrows(body) ==
  /\ Len(participations) < MaxParts /\ nextId <= MaxPartId
  /\ participations' = RouterCreateParticipation(participations, nextId, body)
  /\ nextId' = nextId + 1
  /\ ThrownRebuild
  /\ UNCHANGED <<users, events, cascade, pendingPatch, dashEvents>>
  /\ Outside([SyncThrew("postThrew") EXCEPT !.param = nextId])
  /\ UNCHANGED ui

HttpPatchSyncThrows(id, data) ==
  /\ participations' = RouterPatchParticipation(participations, id, data)
  /\ ThrownRebuild
  /\ UNCHANGED <<users, events, nextId, cascade, pendingPatch, dashEvents>>
  /\ Outside([SyncThrew("patchThrew") EXCEPT
       !.patch = [data EXCEPT !.id = id],
       !.prev = IF id \in Ids(participations)
                THEN CHOOSE p \in Range(participations) : p.id = id
                ELSE NoPart])
  /\ UNCHANGED ui

HttpDeleteSyncThrows(id) ==
  /\ participations' = RouterDestroyParticipation(participations, id)
  /\ ThrownRebuild
  /\ UNCHANGED <<users, events, nextId, cascade, pendingPatch, dashEvents>>
  /\ Outside([SyncThrew("deleteThrew") EXCEPT !.victims = {id}])
  /\ UNCHANGED ui

\* ------------------------------------------- actions of the admin dashboard
\* A callback or a click of the dashboard, which is there while the router is
\* at its route: it writes the component only.
Dashboard(c, h) ==
  /\ auth.url = "/admin/dashboard"
  /\ adminDashboard' = c
  /\ hist' = h
  /\ UNCHANGED <<store, cascade, sweep, pendingPatch, dashEvents, swept,
                 adminEvents, auth>>

Loading == adminDashboard.round.events = "pending" \/ adminDashboard.round.parts = "pending"

\* ngOnInit, a tick of its setInterval: loadEvents(); loadParticipations().
AdminLoad ==
  /\ ~Loading
  /\ Dashboard([adminDashboard EXCEPT
                  !.round = [NoRound EXCEPT !.events = "pending", !.parts = "pending"]],
               Quiet)

\* loadEvents: getEvents answers.
AdminLoadEvents ==
  /\ adminDashboard.round.events = "pending"
  /\ Dashboard([adminDashboard EXCEPT !.events = events,
                                      !.round.events = "ok",
                                      !.round.fetchedEvents = events],
               [Quiet EXCEPT !.last = "loadEvents"])

\* loadEvents: getEvents fails.
AdminLoadEventsFails ==
  /\ adminDashboard.round.events = "pending"
  /\ Dashboard([adminDashboard EXCEPT !.events = {}, !.round.events = "failed"],
               [Quiet EXCEPT !.last = "loadEvents", !.logged = TRUE])

\* loadParticipations: getParticipations answers.
AdminLoadParticipations ==
  /\ adminDashboard.round.parts = "pending"
  /\ Dashboard([LoadedParticipations(adminDashboard, participations) EXCEPT
                  !.round.parts = "ok",
                  !.round.fetchedParts = participations,
                  !.round.partsFirst = (adminDashboard.round.events = "pending"),
                  !.hidden = Ids(participations)
                               \ Ids(Listed(adminDashboard, participations))],
               [Quiet EXCEPT !.last = "loadParticipations"])

\* loadParticipations: getParticipations fails.
AdminLoadParticipationsFails ==
  /\ adminDashboard.round.parts = "pending"
  /\ Dashboard([FailedParticipations(adminDashboard) EXCEPT
                  !.round.parts = "failed", !.hidden = {}],
               [Quiet EXCEPT !.last = "loadParticipations", !.logged = TRUE])

\* cleanUpOrphanParticipations(): one deleteParticipation per listed
\* participation of no cached event.
AdminCleanUp ==
  Dashboard([adminDashboard EXCEPT
               !.deleting = @ \cup OrphanParticipations(adminDashboard)],
            [Quiet EXCEPT !.last = "cleanUp"])

\* One of those requests reaches the server.
AdminDeleteOrphan(id) ==
  /\ id \in adminDashboard.deleting
  /\ DeleteParticipationHandler(id)
  /\ adminDashboard' = [adminDashboard EXCEPT !.deleting = @ \ {id}]
  /\ Outside([Quiet EXCEPT !.last = "participations",
                           !.removed = IF id \in Ids(participations) THEN 1 ELSE 0])
  /\ UNCHANGED <<cascade, pendingPatch, dashEvents, adminEvents, auth>>

\* The clicks on the charts, the filter buttons, the search box, the pager.
AdminFilterByStatus(status) ==
  Dashboard(FilteredByStatus(adminDashboard, status),
            [Quiet EXCEPT !.last = "filterParticipationsByStatus"])

AdminFilterByEventTitle(title) ==
  /\ adminDashboard.participations # <<>>
  /\ \E e \in adminDashboard.events : e.title = title
  /\ Dashboard(FilteredByEventTitle(adminDashboard, title),
               [Quiet EXCEPT !.last = "filterParticipationsByEventTitle"])

AdminFilter(filter) ==
  Dashboard(Filtered(adminDashboard, filter),
            [Quiet EXCEPT !.last = "filterParticipations"])

AdminSearch(term) ==
  Dashboard(Searched(adminDashboard, term),
            [Quiet EXCEPT !.last = "searchParticipations"])

AdminGoToPage(page) ==
  Dashboard(WentToPage(adminDashboard, page),
            [Quiet EXCEPT !.last = "goToPage", !.param = page])

AdminNextPage ==
  Dashboard(WentToNextPage(adminDashboard), [Quiet EXCEPT !.last = "nextPage"])

AdminPreviousPage ==
  Dashboard(WentToPreviousPage(adminDashboard), [Quiet EXCEPT !.last = "previousPage"])

AdminChangePageSize(size) ==
  Dashboard(ChangedPageSize(adminDashboard, size),
            [Quiet EXCEPT !.last = "changePageSize", !.param = size])

\* ---------------------------------------------- actions of the events list
\* A callback or a click of the events list, there while the router is at its
\* route.
EventsList(c, h) ==
  /\ auth.url = "/admin/events"
  /\ adminEvents' = c
  /\ hist' = h
  /\ UNCHANGED <<store, cascade, sweep, pendingPatch, dashEvents, swept,
                 adminDashboard, auth>>

\* AdminEventsComponent.loadEvents: getEvents answers, or fails.
EventsLoad ==
  EventsList(EventsLoaded(adminEvents, InOrder(events)),
             [Quiet EXCEPT !.last = "eventsLoad"])

EventsLoadFails ==
  EventsList(adminEvents, [Quiet EXCEPT !.last = "eventsLoadFailed"])

EventsFilter(term) ==
  EventsList(EventsFiltered(adminEvents, term), [Quiet EXCEPT !.last = "filterEvents"])

EventsGoToPage(page) ==
  EventsList(EventsWentToPage(adminEvents, page),
             [Quiet EXCEPT !.last = "eventsGoToPage", !.param = page])

EventsNextPage ==
  EventsList(EventsWentToNextPage(adminEvents), [Quiet EXCEPT !.last = "eventsNextPage"])

EventsPreviousPage ==
  EventsList(EventsWentToPreviousPage(adminEvents),
             [Quiet EXCEPT !.last = "eventsPreviousPage"])

EventsChangePageSize(size) ==
  EventsList(EventsChangedPageSize(adminEvents, size),
             [Quiet EXCEPT !.last = "eventsChangePageSize", !.param = size])

\* ------------------------------- a /participations request in its two parts
\* The router has written the store and calls res.send; the wrapper has not
\* run yet.  Nothing else runs in between (one thread, synchronous writes).
Routing == hist.last = "routed"

RoutedPost(body) ==
  /\ ~Routing
  /\ Len(participations) < MaxParts /\ nextId <= MaxPartId
  /\ participations' = RouterCreateParticipation(participations, nextId, body)
  /\ nextId' = nextId + 1
  /\ UNCHANGED <<users, events, userRegistrations, cascade, pendingPatch, dashEvents>>
  /\ Outside([Quiet EXCEPT !.last = "routed"])
  /\ UNCHANGED ui

RoutedPatch(id, data) ==
  /\ ~Routing
  /\ participations' = RouterPatchParticipation(participations, id, data)
  /\ UNCHANGED <<users, events, userRegistrations, nextId, cascade, pendingPatch,
                 dashEvents>>
  /\ Outside([Quiet EXCEPT !.last = "routed"])
  /\ UNCHANGED ui

RoutedDelete(id) ==
  /\ ~Routing
  /\ participations' = RouterDestroyParticipation(participations, id)
  /\ UNCHANGED <<users, events, userRegistrations, nextId, cascade, pendingPatch,
                 dashEvents>>
  /\ Outside([Quiet EXCEPT !.last = "routed"])
  /\ UNCHANGED ui

\* res.send as wrapped: syncUserRegistrations(db), then the original send.
WrappedResSend ==
  /\ Routing
  /\ users' = Synced(Db).users
  /\ events' = Synced(Db).events
  /\ participations' = Synced(Db).participations
  /\ userRegistrations' = Synced(Db).userRegistrations
  /\ UNCHANGED <<nextId, cascade, pendingPatch, dashEvents>>
  /\ Outside([Quiet EXCEPT !.last = "participations"])
  /\ UNCHANGED ui

\* AuthService.deleteUser: DELETE /users/:id, the router's alone.
HttpDeleteUser(id) ==
  /\ users' = RouterDestroyUser(users, id)
  /\ UNCHANGED <<events, participations, userRegistrations, nextId, cascade,
                 pendingPatch, dashEvents>>
  /\ Outside([Quiet EXCEPT !.last = "deleteUser"])
  /\ UNCHANGED ui

\* --------------------------------------------------- actions of the session
\* The router has moved: the component of the route left is destroyed, the one
\* of the route entered is constructed.
Routed(a, h) ==
  /\ auth' = a
  /\ hist' = h
  /\ adminDashboard' =
       IF a.url = auth.url THEN adminDashboard
       ELSE [NewAdminDashboard EXCEPT !.deleting = adminDashboard.deleting]
  /\ adminEvents' = IF a.url = auth.url THEN adminEvents ELSE NewAdminEvents
  /\ UNCHANGED <<store, cascade, sweep, pendingPatch, dashEvents, swept>>

\* A navigation to path (a link, router.navigate, the address bar).
Navigate(path) ==
  Routed([auth EXCEPT !.url = Navigated(auth, path, Cardinality(Paths))],
         [Quiet EXCEPT !.last = "navigate", !.path = path])

\* LoginComponent.onSubmit: AuthService.login answers with the users; on
\* success the component navigates by role, else it shows the error.
Login(credentials) ==
  /\ auth.url = "/login"
  /\ LET a == LoggedIn(auth, users, credentials)
     IN IF a.failed
        THEN Routed(a, [Quiet EXCEPT !.last = "loginFailed"])
        ELSE Routed([a EXCEPT !.url =
                       Navigated(a, IF a.currentUser.role = "admin"
                                    THEN "/admin/dashboard" ELSE "/user/dashboard",
                                 Cardinality(Paths))],
                    [Quiet EXCEPT !.last = "login"])

\* AuthService.login: GET /users fails, catchError turns it into the same error.
LoginFails ==
  /\ auth.url = "/login"
  /\ Routed([auth EXCEPT !.failed = TRUE], [Quiet EXCEPT !.last = "loginFailed"])

\* logout() of a dashboard: authService.logout(), window.location.href = '/login'.
Logout ==
  /\ auth.url \in {"/admin/dashboard", "/user/dashboard"}
  /\ Routed([LoggedOut(auth) EXCEPT !.url = "/login"], [Quiet EXCEPT !.last = "logout"])

\* ----------------------------------------------------------- specifications
\* The integrity engine: the server's cascade and startup sweep, the client's
\* cascade and sweep, with events created and deleted under them.
Next ==
  \/ \E param \in 0..MaxEventV : HttpDeleteEvent(param)
  \/ ServerListen
  \/ \E k \in 1..MaxParts : ServerListenThrows(k)
  \/ \E id \in EventIdPool : CreateEvent(id)
  \/ \E e \in events : DeleteEvent(e)
  \/ CascadeLoad
  \/ CascadeLoadFails
  \/ \E id \in cascade.todo : CascadeDelete(id)
  \/ \E id \in cascade.todo : CascadeDeleteFails(id)
  \/ StartSweep
  \/ SweepLoadParticipations
  \/ SweepLoadEvents
  \/ SweepLoadFails
  \/ \E id \in sweep.todo : SweepDelete(id)
  \/ \E id \in sweep.todo : SweepDeleteFails(id)

Spec == Init /\ [][Next]_vars

\* The application used from the browser over a network that loses nothing,
\* started on a database that holds no orphan: users register from the
\* dashboard, admins create and delete events.
InitClean ==
  /\ Seeded({5}, EventIdPool, {<<"Registered", "null">>}, MaxSeed)
  /\ NoOrphans

NextClean ==
  \/ \E id \in EventIdPool : CreateEvent(id)
  \/ \E e \in events : DeleteEvent(e)
  \/ CascadeLoad
  \/ \E id \in cascade.todo : CascadeDelete(id)
  \/ DashLoadEvents
  \/ \E e \in dashEvents : RegisterForEvent(users[1], e.id)

SpecClean == InitClean /\ [][NextClean]_vars

\* The auto-sync server under the requests of any client.
SyncAttendances == {"Attended"}

InitSync == Seeded(UserIds, {Null}, {<<"Registered", "null">>}, 0)

NextSync ==
  \/ \E userId \in UserIds : \E eventId \in {Null, Num(1), Str(1)} :
       HttpPostParticipation([userId |-> userId, eventId |-> eventId,
                              status |-> "Registered", attendance |-> "null"])
  \/ \E id \in 1..MaxPartId : \E status \in Statuses :
       HttpPatchParticipation(id, StatusUpdateData(status))
  \/ \E id \in 1..MaxPartId : \E a \in SyncAttendances :
       HttpPatchParticipation(id, AttendanceUpdateData(a))
  \/ \E id \in 1..MaxPartId : HttpDeleteParticipation(id)
  \/ \E param \in 0..MaxEventV : HttpDeleteEvent(param)
  \/ \E id \in EventIdPool : CreateEvent(id)
  \/ ServerListen

SpecSync == InitSync /\ [][NextSync]_vars

\* Status and attendance updates from the user dashboard.
InitStatus == Seeded({5}, {Null, Num(1), Str(1)}, SeedStates, MaxSeed)

NextStatus ==
  \/ \E userId \in UserIds : \E eventId \in EventIdPool : \E status \in Statuses :
       UpdateParticipationStatus(userId, eventId, status)
  \/ \E userId \in UserIds : \E eventId \in EventIdPool : \E a \in Attendances :
       UpdateParticipationAttendance(userId, eventId, a)
  \/ PatchParticipation
  \/ \E id \in 1..MaxPartId : HttpDeleteParticipation(id)

SpecStatus == InitStatus /\ [][NextStatus]_vars

\* EventService used from the dashboards on a database in which attendance is
\* stored only with status Registered: registerForEvent / createParticipation,
\* updateParticipationStatus, updateParticipationAttendance.
InitAttend ==
  Seeded({5}, {Num(1), Str(1)},
         {<<"Registered", "null">>, <<"Registered", "Attended">>}, MaxSeed)

NextAttend ==
  \/ \E userId \in UserIds : \E eventId \in {Num(1), Str(1)} :
       HttpPostParticipation([userId |-> userId, eventId |-> eventId,
                              status |-> "Registered", attendance |-> "null"])
  \/ \E userId \in UserIds : \E eventId \in EventIdPool : \E status \in Statuses :
       UpdateParticipationStatus(userId, eventId, status)
  \/ \E userId \in UserIds : \E eventId \in EventIdPool : \E a \in Attendances :
       UpdateParticipationAttendance(userId, eventId, a)
  \/ PatchParticipation

SpecAttend == InitAttend /\ [][NextAttend]_vars

\* Event deletion step by step: the server's middleware and router as the two
\* parts of one request (nothing runs between them), and the client's
\* deleteEvent with its cascade.
InitOrder == Seeded({5}, {Num(1), Str(1)}, {<<"Registered", "null">>}, MaxSeed)

OrderDeleteEvent(e) == ~MidRequest /\ DeleteEvent(e)

OrderCascadeLoad == ~MidRequest /\ CascadeLoad

OrderCascadeDelete(id) == ~MidRequest /\ CascadeDelete(id)

NextOrder ==
  \/ \E param \in 0..MaxEventV : EventsMiddleware(param)
  \/ EventsRouter
  \/ \E e \in events : OrderDeleteEvent(e)
  \/ OrderCascadeLoad
  \/ \E id \in cascade.todo : OrderCascadeDelete(id)

SpecOrder == InitOrder /\ [][NextOrder]_vars

\* The auto-sync server when rebuilds may fail.
NextFault ==
  \/ \E userId \in UserIds : \E eventId \in {Num(1), Str(1)} :
       HttpPostParticipation([userId |-> userId, eventId |-> eventId,
                              status |-> "Registered", attendance |-> "null"])
  \/ \E userId \in UserIds : \E eventId \in {Num(1), Str(1)} :
       HttpPostSyncThrows([userId |-> userId, eventId |-> eventId,
                           status |-> "Registered", attendance |-> "null"])
  \/ \E id \in 1..MaxPartId : \E status \in Statuses :
       HttpPatchSyncThrows(id, StatusUpdateData(status))
  \/ \E id \in 1..MaxPartId : HttpDeleteSyncThrows(id)
  \/ \E id \in 1..MaxPartId : HttpDeleteParticipation(id)

SpecFault == InitSync /\ [][NextFault]_vars

\* The admin dashboard loading and reloading its lists while any client
\* creates and deletes events and participations.
InitAdmin ==
  SeededFor(AdminAt("/admin/dashboard"), {5}, {Null, Num(1)},
            {<<"Registered", "null">>}, MaxSeed)

NextAdmin ==
  \/ AdminLoad
  \/ AdminLoadEvents
  \/ AdminLoadEventsFails
  \/ AdminLoadParticipations
  \/ AdminLoadParticipationsFails
  \/ \E eventId \in {Null, Num(1)} :
       HttpPostParticipation([userId |-> 5, eventId |-> eventId,
                              status |-> "Registered", attendance |-> "null"])
  \/ \E param \in 0..MaxEventV : HttpDeleteEvent(param)
  \/ \E id \in EventIdPool : CreateEvent(id)

SpecAdmin == InitAdmin /\ [][NextAdmin]_vars

\* The auto-sync server with each /participations request in its two parts,
\* users and events being deleted between requests.
RebuildDeleteUser(id) == ~Routing /\ HttpDeleteUser(id)

RebuildDeleteEvent(param) == ~Routing /\ HttpDeleteEvent(param)

RebuildCreateEvent(id) == ~Routing /\ CreateEvent(id)

NextRebuild ==
  \/ \E userId \in UserIds : \E eventId \in {Null, Num(1)} :
       RoutedPost([userId |-> userId, eventId |-> eventId,
                   status |-> "Registered", attendance |-> "null"])
  \/ \E id \in 1..MaxPartId : \E status \in {"Pending"} :
       RoutedPatch(id, StatusUpdateData(status))
  \/ \E id \in 1..MaxPartId : RoutedDelete(id)
  \/ WrappedResSend
  \/ \E id \in UserIds : RebuildDeleteUser(id)
  \/ \E param \in 0..MaxEventV : RebuildDeleteEvent(param)
  \/ \E id \in EventIdPool : RebuildCreateEvent(id)

SpecRebuild == InitSync /\ [][NextRebuild]_vars

\* The three orphan cleanups (the client's sweep, the server's, the admin
\* dashboard's) while events and participations are created; no event has the
\* id 0 here.
InitTidy ==
  /\ SeededFor(AdminAt("/admin/dashboard"), {5}, {Num(1)},
               {<<"Registered", "null">>}, 1)
  /\ events \subseteq {Event(Num(1))}

NextTidy ==
  \/ StartSweep
  \/ SweepLoadParticipations
  \/ SweepLoadEvents
  \/ \E id \in sweep.todo : SweepDelete(id)
  \/ ServerListen
  \/ AdminLoad
  \/ AdminLoadEvents
  \/ AdminLoadEventsFails
  \/ AdminLoadParticipations
  \/ AdminCleanUp
  \/ \E id \in adminDashboard.deleting : AdminDeleteOrphan(id)
  \/ \E id \in {Num(1)} : CreateEvent(id)
  \/ HttpPostParticipation([userId |-> 5, eventId |-> Num(1),
                            status |-> "Registered", attendance |-> "null"])

SpecTidy == InitTidy /\ [][NextTidy]_vars

\* The client's two cleanups over a network on which a load can fail.
NextLoads ==
  \/ StartSweep
  \/ SweepLoadParticipations
  \/ SweepLoadEvents
  \/ SweepLoadFails
  \/ \E id \in sweep.todo : SweepDelete(id)
  \/ \E e \in events : DeleteEvent(e)
  \/ CascadeLoad
  \/ CascadeLoadFails
  \/ \E id \in cascade.todo : CascadeDelete(id)

SpecLoads == Init /\ [][NextLoads]_vars

\* The admin dashboard's table: filters, search and pager over lists of up to
\* MaxListed participations.
MaxListed == 3     \* participations in the database the table is loaded from

PageSizes == {1, 2}

InitPages ==
  /\ SeededFor(AdminAt("/admin/dashboard"), {5}, {Num(1)},
               {<<"Registered", "null">>, <<"Pending", "null">>}, MaxListed)
  /\ events = {Event(Num(0)), Event(Num(1))}

NextPages ==
  \/ AdminLoad
  \/ AdminLoadEvents
  \/ AdminLoadParticipations
  \/ AdminLoadParticipationsFails
  \/ \E status \in {"Pending"} : AdminFilterByStatus(status)
  \/ \E title \in 0..MaxEventV : AdminFilterByEventTitle(title)
  \/ \E filter \in {AllFilter, StatusFilter("Registered")} : AdminFilter(filter)
  \/ \E term \in {NoTerm, 1} : AdminSearch(term)
  \/ \E page \in 0..MaxListed : AdminGoToPage(page)
  \/ AdminNextPage
  \/ AdminPreviousPage
  \/ \E size \in PageSizes : AdminChangePageSize(size)

SpecPages == InitPages /\ [][NextPages]_vars

\* The two paged lists of the admin, one route at a time: the dashboard's
\* table and the events list, reloaded while participations and events are
\* deleted.
InitBounds ==
  /\ \E path \in {"/admin/dashboard", "/admin/events"} :
       SeededFor(AdminAt(path), {5}, {Num(1)}, {<<"Registered", "null">>}, MaxListed)
  /\ events = {Event(Num(0)), Event(Num(1))}
  /\ Len(participations) = MaxListed

NextBounds ==
  \/ \E path \in {"/admin/dashboard", "/admin/events"} : Navigate(path)
  \/ AdminLoad
  \/ AdminLoadEvents
  \/ AdminLoadParticipations
  \/ AdminLoadParticipationsFails
  \/ \E status \in {"Pending"} : AdminFilterByStatus(status)
  \/ \E title \in {1} : AdminFilterByEventTitle(title)
  \/ \E filter \in {AllFilter} : AdminFilter(filter)
  \/ \E term \in {1} : AdminSearch(term)
  \/ \E page \in 0..MaxListed : AdminGoToPage(page)
  \/ AdminNextPage
  \/ AdminPreviousPage
  \/ \E size \in PageSizes : AdminChangePageSize(size)
  \/ EventsLoad
  \/ EventsLoadFails
  \/ \E term \in {NoTerm, 1} : EventsFilter(term)
  \/ \E page \in 0..MaxListed : EventsGoToPage(page)
  \/ EventsNextPage
  \/ EventsPreviousPage
  \/ \E size \in PageSizes : EventsChangePageSize(size)
  \/ \E id \in {MaxListed} : HttpDeleteParticipation(id)
  \/ \E param \in 0..MaxEventV : HttpDeleteEvent(param)

SpecBounds == InitBounds /\ [][NextBounds]_vars

\* Sessions: logins with right and wrong credentials, logouts and navigations,
\* users being deleted meanwhile.
Credentials == [email : {5, 9, 1}, password : {5, 9}]

InitAuth ==
  \E stored \in {NoUser} \cup Range(SeedUsers) :
    SeededFor(NewAuth(stored), {5}, {Num(1)}, {<<"Registered", "null">>}, 0)

NextAuth ==
  \/ \E credentials \in Credentials : Login(credentials)
  \/ LoginFails
  \/ Logout
  \/ \E path \in Paths : Navigate(path)
  \/ \E id \in UserIds : HttpDeleteUser(id)

SpecAuth == InitAuth /\ [][NextAuth]_vars

\* =================================================================== claims
\* An orphan as the specification defines it: the eventId is missing, or it is
\* the id of no event of the given set.
Orphaned(p, evts) == p.eventId = Null \/ ~(\E e \in evts : e.id = p.eventId)

\* The lists the sweep's forkJoin hands to its callback when it completes.
LoadedParts == IF sweep.gotParts THEN sweep.parts ELSE participations
LoadedEvents == IF sweep.gotEvents THEN sweep.evts ELSE events
Joins == sweep.pc = "loading" /\ sweep'.pc \in {"deleting", "done"}

\* C1. Cascade completeness: once the cascade cleanup for a deleted event E has
\* completed with no failed removal, no participation that had eventId equal to
\* E.id when E was deleted is left; for the server's DELETE /events/:id (the
\* middleware has run when the handler returns) and for the client's
\* EventService.deleteEvent (its cascade is done).
CascadeCompleteness ==
  /\ hist.last = "deleteEvent" =>
       \A i \in DOMAIN participations : participations[i].id \notin hist.victims
  /\ (cascade.pc = "done" /\ ~cascade.failed) =>
       \A i \in DOMAIN participations :
         ~(participations[i].eventId = cascade.eventId
           /\ participations[i].id < cascade.before)

\* C2. Referential integrity: started without orphans, whenever no request or
\* cleanup is in flight every participation's eventId is the id of an existing
\* event.
ReferentialIntegrity ==
  Quiescent => \A i \in DOMAIN participations :
                 \E e \in events : e.id = participations[i].eventId

\* C3. Sweep completeness: the sweep issues a removal for every orphan of the
\* lists it loaded; when the sweep has ended with every removal done and
\* nothing else written (client), or has just run (server), no orphan remains.
SweepCompleteness ==
  [][/\ Joins =>
          \A i \in DOMAIN LoadedParts :
            Orphaned(LoadedParts[i], LoadedEvents) => LoadedParts[i].id \in sweep'.todo
     /\ CleanEnd(sweep') =>
          \A i \in DOMAIN participations' : ~Orphaned(participations'[i], events')
     /\ hist'.last = "listen" =>
          \A i \in DOMAIN participations' : ~Orphaned(participations'[i], events')
    ]_vars

SweepCompletenessWitness ==
  /\ CleanEnd(sweep) /\ sweep.removed = 2
  /\ participations = <<>>

\* C4. Idempotence of the sweep: a sweep that follows a completed sweep with no
\* mutation in between, and is itself not interleaved with one, finds nothing
\* to remove and removes nothing.
SweepIdempotence ==
  /\ (sweep.second /\ ~sweep.disturbed) =>
       (sweep.todo = {} /\ sweep.removed = 0 /\ ~sweep.failed)
  /\ (hist.last = "listen" /\ hist.second) => hist.removed = 0

SweepIdempotenceWitness ==
  /\ sweep.pc = "done" /\ sweep.second /\ ~sweep.disturbed
  /\ hist.last = "none" /\ swept
  /\ Len(participations) = 1

\* C9. An eventId of 0 is a valid id: a sweep leaves alone a participation whose
\* eventId is 0 while an event with id 0 exists.
ZeroIsValidEventId ==
  [][/\ Joins =>
          \A i \in DOMAIN LoadedParts :
            (LoadedParts[i].eventId = Num(0) /\ FindsEvent(LoadedEvents, Num(0)))
              => LoadedParts[i].id \notin sweep'.todo
     /\ hist'.last = "listen" =>
          \A i \in DOMAIN participations :
            (participations[i].eventId = Num(0) /\ FindsEvent(events, Num(0)))
              => participations[i].id \in Ids(participations')
    ]_vars

\* The last step was the server answering a POST, PATCH or DELETE on
\* /participations, which rebuilt userRegistrations.
Rebuilt == hist.last = "participations"

Entries == {<<j, k>> \in (DOMAIN userRegistrations) \X (1..MaxParts + 1) :
              k \in DOMAIN userRegistrations[j].registeredEvents}

\* C5. Aggregate coverage: after a rebuild every user with role "user" has
\* exactly one userRegistrations entry, and its totalRegistrations is the number
\* of that user's participations whose eventId is the id of an existing event.
AggregateCoverage ==
  Rebuilt =>
    \A i \in DOMAIN users :
      users[i].role = "user" =>
        /\ Cardinality({j \in DOMAIN userRegistrations :
                          userRegistrations[j].userId = users[i].id}) = 1
        /\ \A j \in DOMAIN userRegistrations :
             userRegistrations[j].userId = users[i].id =>
               userRegistrations[j].totalRegistrations =
                 Cardinality({k \in DOMAIN participations :
                                /\ participations[k].userId = users[i].id
                                /\ \E e \in events : e.id = participations[k].eventId})

AggregateCoverageWitness ==
  /\ Rebuilt
  /\ \E j \in DOMAIN userRegistrations :
       /\ userRegistrations[j].totalRegistrations = 1
       /\ Cardinality({k \in DOMAIN participations :
                         participations[k].userId = userRegistrations[j].userId}) = 2

\* C6. Attendance suppression: an entry of the summary carries attendance only
\* with status Registered, and after a rebuild only the attendance its
\* participation stores.
AttendanceSuppression ==
  /\ \A jk \in Entries :
       LET entry == userRegistrations[jk[1]].registeredEvents[jk[2]]
       IN entry.attendance # "absent" => entry.status = "Registered"
  /\ Rebuilt =>
       \A jk \in Entries :
         LET entry == userRegistrations[jk[1]].registeredEvents[jk[2]]
         IN entry.attendance # "absent" =>
              \E i \in DOMAIN participations :
                /\ participations[i].userId = userRegistrations[jk[1]].userId
                /\ participations[i].eventId = entry.eventId
                /\ participations[i].status = "Registered"
                /\ participations[i].attendance = entry.attendance

AttendanceSuppressionWitness ==
  /\ Rebuilt
  /\ \E i \in DOMAIN participations :
       /\ participations[i].status = "Pending"
       /\ participations[i].attendance = "Attended"
       /\ \E jk \in Entries :
            LET entry == userRegistrations[jk[1]].registeredEvents[jk[2]]
            IN /\ userRegistrations[jk[1]].userId = participations[i].userId
               /\ entry.eventId = participations[i].eventId
               /\ entry.status = "Pending"
               /\ entry.attendance = "absent"

\* C7. Auto-sync after participation requests: when the server has answered a
\* POST, PATCH or DELETE on /participations, userRegistrations is the projection
\* of the users, participations and events as that request left them.
AutoSyncAfterRequest ==
  Rebuilt => userRegistrations = SyncUserRegistrations(participations, users, events)

AutoSyncAfterRequestWitness ==
  /\ Rebuilt
  /\ \E j \in DOMAIN userRegistrations : userRegistrations[j].totalRegistrations = 2

\* C8. userRegistrations stays in sync: every change of the participations
\* collection is followed by a rebuild, so the step that changes the collection
\* leaves userRegistrations equal to the projection of the store.
AlwaysInSync ==
  [][participations' # participations =>
       userRegistrations' = SyncUserRegistrations(participations', users', events')]_vars

\* C10. Status change clears attendance: a successful status update to Assigned
\* or Pending leaves the patched participation with that status and attendance
\* null; one to Registered changes the status and nothing else.
StatusChangeClearsAttendance ==
  (hist.patch.status # "keep" /\ hist.prev # NoPart) =>
    \E i \in DOMAIN participations :
      /\ participations[i].id = hist.patch.id
      /\ hist.patch.status \in {"Assigned", "Pending"} =>
           participations[i] =
             [hist.prev EXCEPT !.status = hist.patch.status, !.attendance = "null"]
      /\ hist.patch.status = "Registered" =>
           participations[i] = [hist.prev EXCEPT !.status = "Registered"]

StatusChangeClearsAttendanceWitness ==
  /\ hist.patch.status = "Pending"
  /\ hist.prev.status = "Registered"
  /\ hist.prev.attendance = "Attended"

\* C11. Best-effort cleanup: a removal that fails leaves every other orphan of
\* the scan to its own attempt.  On the client each answer or failure takes
\* exactly one id off the removals in flight and the others stay in flight; on
\* the server every orphan the scan found is attempted.
BestEffortCleanup ==
  [][/\ (sweep.pc = "deleting" /\ sweep'.todo # sweep.todo) =>
          /\ \E id \in sweep.todo : sweep'.todo = sweep.todo \ {id}
          /\ sweep'.pc = IF sweep'.todo = {} THEN "done" ELSE "deleting"
     /\ (cascade.pc = "deleting" /\ cascade'.todo # cascade.todo) =>
          /\ \E id \in cascade.todo : cascade'.todo = cascade.todo \ {id}
          /\ cascade'.pc = IF cascade'.todo = {} THEN "done" ELSE "deleting"
     /\ hist'.last \in {"listen", "listenThrew"} =>
          hist'.victims = Ids(ServerOrphanedParticipations(participations, events))
    ]_vars

\* A step of the client's cascade, of the client's sweep, or the server's sweep.
CascadeSteps == cascade.pc \in {"loading", "deleting"} /\ cascade' # cascade
SweepSteps ==
  /\ sweep.pc \in {"loading", "deleting"}
  /\ [sweep' EXCEPT !.disturbed = FALSE] # [sweep EXCEPT !.disturbed = FALSE]
ListenSteps == hist'.last \in {"listen", "listenThrew"}

\* C12. Frame of the integrity operations: a step of a cascade or of a sweep
\* leaves users and events as they are, and every participation it leaves is a
\* record that was there, unchanged.
CleanupFrame ==
  [][(CascadeSteps \/ SweepSteps \/ ListenSteps) =>
       /\ users' = users
       /\ events' = events
       /\ Range(participations') \subseteq Range(participations)
       /\ Len(participations') <= Len(participations)
    ]_vars

CleanupFrameWitness ==
  /\ CleanEnd(sweep) /\ sweep.removed = 1
  /\ Len(participations) = 1
  /\ events # {}

\* C13. Admin users never appear in the summary: after a rebuild no entry of
\* userRegistrations has the userId of a user with role "admin", whatever
\* participations that admin has.
AdminsNotInSummary ==
  Rebuilt =>
    \A j \in DOMAIN userRegistrations : \A i \in DOMAIN users :
      users[i].role = "admin" => userRegistrations[j].userId # users[i].id

AdminsNotInSummaryWitness ==
  /\ Rebuilt
  /\ \E k \in DOMAIN participations : \E i \in DOMAIN users :
       /\ users[i].role = "admin"
       /\ participations[k].userId = users[i].id
       /\ FindsEvent(events, participations[k].eventId)

\* C14. Rebuild idempotence: a rebuild that follows a rebuild, with users,
\* participations and events unchanged, writes the userRegistrations collection
\* the previous one wrote.
RebuildIdempotence ==
  [][(/\ hist.last = "participations"
      /\ hist'.last = "participations"
      /\ <<users', participations', events'>> = <<users, participations, events>>)
       => userRegistrations' = userRegistrations]_vars

RebuildIdempotenceWitness ==
  /\ Rebuilt /\ hist.second
  /\ \E j \in DOMAIN userRegistrations : userRegistrations[j].totalRegistrations >= 1

\* C15. Safe re-invocation after partial failure: a sweep that follows a sweep
\* with failed removals issues removals for exactly the participations that
\* are orphaned in the lists it loaded, and nothing else; after a run with no
\* failure (and nothing else written) no orphan remains.
SafeReinvocation ==
  [][/\ (Joins /\ sweep.retry) =>
          sweep'.todo = {LoadedParts[i].id : i \in
                           {j \in DOMAIN LoadedParts :
                              Orphaned(LoadedParts[j], LoadedEvents)}}
     /\ (CleanEnd(sweep') /\ sweep'.retry) =>
          \A i \in DOMAIN participations' : ~Orphaned(participations'[i], events')
    ]_vars

\* The client's sweep completes in this step, no removal of it having failed.
SweepCompletes ==
  sweep.pc \in {"loading", "deleting"} /\ sweep'.pc = "done" /\ ~sweep'.failed

\* C16. Startup sweep (as claimed): when the startup sweep has completed
\* without failures, no participation that was orphaned at startup is in the
\* collection as an orphan; on the server (listen) and on the client
\* (AppComponent.ngOnInit).
StartupSweep ==
  [][/\ hist'.last = "listen" =>
          \A i \in DOMAIN participations' :
            ~(/\ participations'[i].id \in OrphanIds(participations, events)
              /\ Orphaned(participations'[i], events'))
     /\ SweepCompletes =>
          \A i \in DOMAIN participations' :
            ~(/\ participations'[i].id \in sweep.start
              /\ Orphaned(participations'[i], events'))
    ]_vars

\* C17. Participation attendance invariant: a participation that stores an
\* attendance (Attended or Completed) has status Registered.
AttendanceOnlyWhenRegistered ==
  \A i \in DOMAIN participations :
    participations[i].attendance # "null" => participations[i].status = "Registered"

\* C18. Ordering of the cascade: the participations of an event are removed
\* only once the event is deleted; no step removes a participation whose event
\* is still in the events collection when the step is over.
CascadeAfterDeletion ==
  [][\A i \in DOMAIN participations :
       participations[i].id \notin Ids(participations') =>
         ~FindsEvent(events', participations[i].eventId)]_vars

\* The ids whose DELETE a cleanup sees answered in this step.
SweepAnswered == IF hist'.last = "participations" THEN sweep.todo \ sweep'.todo ELSE {}
CascadeAnswered == IF hist'.last = "participations" THEN cascade.todo \ cascade'.todo ELSE {}

\* C19. Concurrent removal is tolerated: when a cleanup's DELETE finds the
\* participation already removed by another cleanup, nothing is written, the
\* cleanup is not stopped (its other removals stay in flight, or it is done),
\* and the participation is absent as after a single cleanup.
ConcurrentRemovalTolerated ==
  [][/\ \A id \in SweepAnswered :
          id \notin Ids(participations) =>
            /\ participations' = participations
            /\ sweep'.todo = sweep.todo \ {id}
            /\ sweep'.pc = IF sweep'.todo = {} THEN "done" ELSE "deleting"
     /\ \A id \in CascadeAnswered :
          id \notin Ids(participations) =>
            /\ participations' = participations
            /\ cascade'.todo = cascade.todo \ {id}
            /\ cascade'.pc = IF cascade'.todo = {} THEN "done" ELSE "deleting"
    ]_vars

ConcurrentRemovalToleratedWitness ==
  /\ hist.last = "participations" /\ hist.removed = 0
  /\ sweep.pc = "deleting" /\ sweep.failed
  /\ sweep.todo \cap Ids(participations) # {}

\* C20. A rebuild failure is never fatal to the caller: when
\* syncUserRegistrations throws while a POST, PATCH or DELETE on /participations
\* is answered, the error is logged, the response is sent exactly once, and the
\* participation mutation is in the store.
RebuildFailureNotFatal ==
  /\ hist.last \in {"postThrew", "patchThrew", "deleteThrew"} =>
       (hist.sent = 1 /\ hist.logged)
  /\ hist.last = "postThrew" => hist.param \in Ids(participations)
  /\ hist.last = "deleteThrew" => hist.victims \cap Ids(participations) = {}
  /\ (hist.last = "patchThrew" /\ hist.prev # NoPart) =>
       \E i \in DOMAIN participations :
         participations[i] = RouterPatch(hist.prev, hist.patch)

RebuildFailureNotFatalWitness ==
  /\ hist.last = "patchThrew"
  /\ hist.prev.status = "Registered" /\ hist.patch.status = "Pending"
  /\ userRegistrations # SyncUserRegistrations(participations, users, events)

\* C21. Opportunistic cleanup on listing: when loadParticipations has listed the
\* participations, a removal from the store has been issued for every orphan
\* the listing found (fetched, of no event, left out of the list).
CleanupOnListing ==
  [][hist'.last = "loadParticipations" =>
       \A i \in DOMAIN participations :
         (/\ Orphaned(participations[i], events)
          /\ participations[i].id \in adminDashboard'.hidden)
           => participations[i].id \in adminDashboard'.deleting
    ]_vars

\* C22. No de-duplication and stable order: after a rebuild the registeredEvents
\* of a user has one entry per participation of that user with a resolvable
\* event, in the order of the participations collection, two participations
\* for the same event giving two entries, and totalRegistrations counts them all.
NoDeduplication ==
  Rebuilt =>
    \A j \in DOMAIN userRegistrations :
      LET mine == SelectSeq(participations, LAMBDA p :
                    /\ p.userId = userRegistrations[j].userId
                    /\ \E e \in events : e.id = p.eventId)
          registered == userRegistrations[j].registeredEvents
      IN /\ Len(registered) = Len(mine)
         /\ userRegistrations[j].totalRegistrations = Len(mine)
         /\ \A k \in DOMAIN mine :
              /\ registered[k].eventId = mine[k].eventId
              /\ registered[k].status = mine[k].status
              /\ registered[k].registrationDate = mine[k].registrationDate

NoDeduplicationWitness ==
  /\ Rebuilt
  /\ \E j \in DOMAIN userRegistrations :
       LET registered == userRegistrations[j].registeredEvents
       IN /\ Len(registered) = 2
          /\ registered[1].eventId = registered[2].eventId
          /\ registered[1].status = "Pending"
          /\ registered[2].status = "Registered"

\* C23. Full replacement: after a rebuild nothing of the previous stored value
\* is left: every entry is of a user of the users collection, every
\* registeredEvents entry is of a participation of the collection whose event
\* exists, and a user with no participation has registeredEvents empty and
\* totalRegistrations 0.
FullReplacement ==
  Rebuilt =>
    \A j \in DOMAIN userRegistrations :
      LET r == userRegistrations[j]
      IN /\ \E i \in DOMAIN users : users[i].id = r.userId
         /\ \A k \in DOMAIN r.registeredEvents :
              \E i \in DOMAIN participations :
                /\ participations[i].userId = r.userId
                /\ participations[i].eventId = r.registeredEvents[k].eventId
                /\ participations[i].status = r.registeredEvents[k].status
                /\ \E e \in events : e.id = participations[i].eventId
         /\ (\A i \in DOMAIN participations : participations[i].userId # r.userId) =>
              (r.registeredEvents = <<>> /\ r.totalRegistrations = 0)

\* A rebuild after user 5, who had a registration, was deleted and the last
\* participation was removed.
FullReplacementWitness ==
  /\ Rebuilt
  /\ \A i \in DOMAIN users : users[i].id # 5
  /\ participations = <<>> /\ nextId > 1
  /\ events # {}
  /\ userRegistrations # <<>>

\* C30. Frame of the rebuild: syncUserRegistrations leaves the users, events and
\* participations collections as they were, the participations of no event
\* included.
RebuildFrame ==
  [][(Routing /\ hist'.last = "participations") =>
       /\ users' = users
       /\ events' = events
       /\ participations' = participations]_vars

RebuildFrameWitness ==
  /\ Rebuilt
  /\ \E i \in DOMAIN participations : ~FindsEvent(events, participations[i].eventId)
  /\ \E j \in DOMAIN userRegistrations : userRegistrations[j].totalRegistrations = 1

\* A step in which an orphan cleanup has a participation removed: a DELETE of
\* the client's sweep or of the dashboard's cleanup is handled, or the server's
\* sweep runs.
CleanupDeletes ==
  \/ hist'.last = "participations" /\ sweep'.todo # sweep.todo
  \/ hist'.last = "participations" /\ adminDashboard'.deleting # adminDashboard.deleting
  \/ hist'.last = "listen"

\* C24. Cleanup removes only orphans, under any interleaving: no step of an
\* orphan cleanup removes a participation whose eventId is the id of an event
\* that is in the store at that moment.
OnlyOrphansRemoved ==
  [][CleanupDeletes =>
       \A i \in DOMAIN participations :
         participations[i].id \notin Ids(participations') =>
           ~(\E e \in events : e.id = participations[i].eventId)
    ]_vars

LoadOrderIndependent ==
  (adminDashboard.round.events = "ok" /\ adminDashboard.round.parts = "ok") =>
    adminDashboard.participations =
      SelectSeq(adminDashboard.round.fetchedParts, LAMBDA p :
        \E e \in adminDashboard.round.fetchedEvents : e.id = p.eventId)

\* The operations of the dashboard's table.
PagingOps ==
  {"loadParticipations", "filterParticipations", "filterParticipationsByStatus",
   "filterParticipationsByEventTitle", "searchParticipations", "goToPage",
   "nextPage", "previousPage", "changePageSize"}

\* The pages agree with the filtered list.
PagesAgree(c) ==
  /\ c.totalItems = Len(c.filteredParticipations)
  /\ c.totalPages * c.pageSize >= c.totalItems
  /\ c.totalPages * c.pageSize < c.totalItems + c.pageSize
  /\ Len(c.paginatedParticipations) <= c.pageSize
  /\ \A k \in 1..c.pageSize :
       LET at == (c.currentPage - 1) * c.pageSize + k
       IN IF at \in DOMAIN c.filteredParticipations
          THEN /\ k \in DOMAIN c.paginatedParticipations
               /\ c.paginatedParticipations[k] = c.filteredParticipations[at]
          ELSE k \notin DOMAIN c.paginatedParticipations

\* C27. Pagination consistency in the admin dashboard: after every operation
\* of the table that changes filteredParticipations, currentPage or pageSize,
\* totalItems is the length of filteredParticipations, totalPages is
\* ceil(totalItems / pageSize) and paginatedParticipations is the slice of
\* filteredParticipations for currentPage.
PaginationConsistency ==
  [][(/\ hist'.last \in PagingOps
      /\ <<adminDashboard'.filteredParticipations, adminDashboard'.currentPage,
           adminDashboard'.pageSize>>
           # <<adminDashboard.filteredParticipations, adminDashboard.currentPage,
               adminDashboard.pageSize>>)
       => PagesAgree(adminDashboard')]_vars

\* C28. Page bounds: in the admin dashboard and in the admin events list
\* currentPage stays within 1..max(1, totalPages) whatever the pager, the
\* filters and the reloads do; goToPage with a page outside 1..totalPages,
\* nextPage on the last page and previousPage on page 1 change nothing.
PageBounds ==
  [][/\ adminDashboard'.currentPage >= 1
     /\ adminDashboard'.currentPage <= adminDashboard'.totalPages
          \/ adminDashboard'.currentPage = 1
     /\ adminEvents'.currentPage >= 1
     /\ adminEvents'.currentPage <= adminEvents'.totalPages
          \/ adminEvents'.currentPage = 1
     /\ (hist'.last = "goToPage"
           /\ (hist'.param < 1 \/ hist'.param > adminDashboard.totalPages))
          => adminDashboard' = adminDashboard
     /\ (hist'.last = "nextPage" /\ adminDashboard.currentPage >= adminDashboard.totalPages)
          => adminDashboard' = adminDashboard
     /\ (hist'.last = "previousPage" /\ adminDashboard.currentPage = 1)
          => adminDashboard' = adminDashboard
     /\ (hist'.last = "eventsGoToPage"
           /\ (hist'.param < 1 \/ hist'.param > adminEvents.totalPages))
          => adminEvents' = adminEvents
     /\ (hist'.last = "eventsNextPage" /\ adminEvents.currentPage >= adminEvents.totalPages)
          => adminEvents' = adminEvents
     /\ (hist'.last = "eventsPreviousPage" /\ adminEvents.currentPage = 1)
          => adminEvents' = adminEvents
    ]_vars

\* The dashboard, on the last of several pages, was asked for a page beyond it.
PageBoundsWitness ==
  /\ hist.last = "goToPage"
  /\ hist.param > adminDashboard.totalPages
  /\ adminDashboard.totalPages >= 2
  /\ adminDashboard.currentPage = adminDashboard.totalPages

\* C29. Route protection follows the session: a navigation to a route under
\* AuthGuard ends there only if a user is logged in, else at /login; to a route
\* under AdminGuard too only if that user's role is admin, else at
\* /user/dashboard; so the browser is never at a guarded route the session
\* does not allow. A failed login leaves the session as it was, and after
\* logout both guards deny.
RouteProtection ==
  [][/\ hist'.last = "navigate" =>
          auth'.url =
            IF hist'.path = "/login" THEN "/login"
            ELSE IF ~IsLoggedIn(auth) THEN "/login"
            ELSE IF hist'.path = "/user/dashboard" \/ ~IsAdmin(auth)
                 THEN "/user/dashboard"
            ELSE hist'.path
     /\ hist'.last = "navigate" => auth'.currentUser = auth.currentUser
     /\ auth'.url # "/login" => AuthGuard(auth') = "yes"
     /\ auth'.url \in {"/admin/dashboard", "/admin/events"} => AdminGuard(auth') = "yes"
     /\ AuthGuard(auth') = "yes" <=> auth'.currentUser # NoUser
     /\ AdminGuard(auth') = "yes" <=>
          (auth'.currentUser # NoUser /\ auth'.currentUser.role = "admin")
     /\ hist'.last = "loginFailed" =>
          (auth'.currentUser = auth.currentUser /\ auth'.stored = auth.stored)
     /\ hist'.last = "logout" =>
          (AuthGuard(auth') = "/login" /\ AdminGuard(auth') = "/user/dashboard")
    ]_vars

\* Somebody logged in went back to /login and mistyped the password.
RouteProtectionWitness ==
  /\ hist.last = "loginFailed"
  /\ IsLoggedIn(auth)
  /\ auth.failed

====
